---- MODULE Spec2Model ----
(***************************************************************************)
(* SnakePit Clicker: the click worker (click_worker.py, class AutoClicker) *)
(* and the hotkey listener (hotkey_listener.py, class HotkeyListener),     *)
(* with the configuration the listener reads (config_loader.py).           *)
(*                                                                         *)
(* Threads of the program:                                                 *)
(*   "ev"       the input source's event-delivery thread, which runs       *)
(*              _key_push / _key_release and everything they call;         *)
(*   workers    the click loops created by start_clicker (ThreadIds);      *)
(*   the polling loop __key_listener (its position is lpc).                *)
(* "c1" and "c2" are callers that use the AutoClicker's start_clicker /    *)
(* stop_clicker directly; they move only under SpecAPI and SpecAPI2.       *)
(***************************************************************************)
EXTENDS Integers, FiniteSets, Sequences, TLC

\* Number of Thread objects that can exist besides the one made by __init__.
MaxThreads == 2

\* The history of button events after a stop signal counts up to MaxCount.
MaxCount == 2

ThreadIds == 0..MaxThreads

Callers == {"ev", "c1", "c2"}

\* The key symbols of the default bindings (shift+s, shift+s, shift+e).
Symbols == {"shift", "s", "e"}

\* Python's None.
NoneValue == "<None>"

VARIABLES
    cfg_start, cfg_stop, cfg_exit,      \* ConfigHolder._start/_stop/_exit_key_combo
    start_key_combo, stop_key_combo, exit_key_combo,   \* HotkeyListener's sets
    lpc,                    \* position of HotkeyListener.__init__ / __key_listener
    listener_stop_event,    \* HotkeyListener._stop_event
    clicker_alive,          \* HotkeyListener._clicker_alive
    current_pressed_keys,   \* HotkeyListener._current_pressed_keys
    lock,                   \* holder of HotkeyListener._lock, or "free"
    pc, ret,                \* position and return position of each caller
    jt,                     \* the Thread a caller's join() is bound to, or -1
    do_exit, do_stop, do_start,         \* locals of __check_hotkeys
    key_value,              \* local of _key_push / _key_release
    key,                    \* parameter of _key_push / _key_release, or NoKey
    stop_event,             \* AutoClicker._stop_event
    thread,                 \* AutoClicker._thread (an id in ThreadIds)
    tstate,                 \* state of each Thread object
    button,                 \* TRUE while the simulated left button is down
    last_call,              \* history: the last AutoClicker call each caller made
    most_recent,            \* history: per symbol, its most recent event
                            \* ("press", "release", or "none" before the first)
    chord,                  \* history: since no key was held and the clicker was
                            \* stopped, only distinct keys of the start combo were
                            \* pressed and none was released
    since_stop,             \* history: button-downs and button-ups performed since
                            \* the stop event was last set
    n_start                 \* history: start requests made during that chord
                            \* (0, 1, or 2 for "more than one")

cfgvars == <<cfg_start, cfg_stop, cfg_exit>>
combovars == <<start_key_combo, stop_key_combo, exit_key_combo>>
localvars == <<do_exit, do_stop, do_start, key_value, key>>
listenervars == <<lpc, listener_stop_event, clicker_alive, current_pressed_keys,
                  lock, most_recent>>
clickervars == <<stop_event, thread, tstate, button, since_stop>>
callvars == <<pc, ret, jt, last_call>>
chordvars == <<chord, n_start>>
vars == <<cfgvars, combovars, localvars, listenervars, clickervars, callvars,
          chordvars>>

(***************************************************************************)
(* AutoClicker                                                             *)
(***************************************************************************)

\* Thread.is_alive(): started and its run() has not returned.
is_alive(t) == tstate[t] \in {"loop", "wait", "press", "pause", "release"}

AliveThreads == {t \in ThreadIds : is_alive(t)}

\* A Thread object nothing refers to any more: not alive, not self._thread,
\* not the target of a join in progress.  Its id can be used again.
Unreferenced(t) ==
    /\ ~is_alive(t)
    /\ t # thread
    /\ \A c \in Callers : jt[c] # t

\* History: no button event since the stop event was last set.
NoEvents == [e \in {"down", "up"} |-> 0]

\* Mutant of loop_continues: the loop never tests the stop event.
loop_forever == TRUE

\* The while condition of _click_worker (line 103).
loop_continues == ~stop_event

\* Mutant of worker_next: the stop event is tested again after the button-down.
worker_next_midcycle(st) ==
    CASE st = "loop" -> IF loop_continues THEN "wait" ELSE "dead"
      [] st = "wait" -> "press"
      [] st = "press" -> "pause"
      [] st = "pause" -> IF loop_continues THEN "release" ELSE "dead"
      [] st = "release" -> "loop"

\* _click_worker (lines 103-107): the position after the one at st.
\*   loop:    while not self._stop_event.is_set()
\*   wait:    wait_ms(self._mouse_click_interval)
\*   press:   self._mouse_controller.press(MouseButton.left)
\*   pause:   wait_ms(5)
\*   release: self._mouse_controller.release(MouseButton.left)
worker_next(st) ==
    CASE st = "loop" -> IF loop_continues THEN "wait" ELSE "dead"
      [] st = "wait" -> "press"
      [] st = "press" -> "pause"
      [] st = "pause" -> "release"
      [] st = "release" -> "loop"

\* The simulated button after the statement at st.
button_after(st) ==
    CASE st = "press" -> TRUE
      [] st = "release" -> FALSE
      [] OTHER -> button

\* History: a button event of kind e ("down", "up") after the stop signal.
Count(e) ==
    IF stop_event /\ since_stop[e] < MaxCount
       THEN [since_stop EXCEPT ![e] = @ + 1]
       ELSE since_stop

\* _click_worker, one step of thread t.
click_worker(t) ==
    /\ is_alive(t)
    /\ tstate' = [tstate EXCEPT ![t] = worker_next(tstate[t])]
    /\ button' = button_after(tstate[t])
    /\ since_stop' = CASE tstate[t] = "press" -> Count("down")
                       [] tstate[t] = "release" -> Count("up")
                       [] OTHER -> since_stop
    /\ UNCHANGED <<stop_event, thread>>
    /\ UNCHANGED <<cfgvars, combovars, localvars, listenervars, callvars, chordvars>>

\* Mutant of start_guard: start_clicker starts a thread whatever the state.
start_always == TRUE

\* start_clicker's test (line 116): the clicker is stopped.
start_guard == stop_event

\* Mutant of stop_guard: stop_clicker never stops the worker.
stop_never == FALSE

\* stop_clicker's test (line 129): the clicker is running.
stop_guard == ~stop_event

\* Mutant of join_returns: stop_clicker does not wait for the thread.
join_nowait(t) == TRUE

\* Thread.join() on t returns (line 132): t has ended.
join_returns(t) == ~is_alive(t)

\* Return from start_clicker / stop_clicker to the caller's continuation.
Return(c) == [pc EXCEPT ![c] = ret[c]]

\* start_clicker, one step of caller c.
\*   start_test:  if self._stop_event.is_set():
\*   start_clear:     self._stop_event.clear()
\*   start_new:       self._thread = Thread(target=self._click_worker, daemon=True)
\*   start_run:       self._thread.start()
\* Thread.start() on a Thread that was already started raises RuntimeError.
start_clicker(c) ==
    /\ \/ /\ pc[c] = "start_test"
          /\ pc' = IF start_guard THEN [pc EXCEPT ![c] = "start_clear"] ELSE Return(c)
          /\ UNCHANGED <<stop_event, thread, tstate, since_stop>>
       \/ /\ pc[c] = "start_clear"
          /\ stop_event' = FALSE
          /\ since_stop' = NoEvents
          /\ pc' = [pc EXCEPT ![c] = "start_new"]
          /\ UNCHANGED <<thread, tstate>>
       \/ /\ pc[c] = "start_new"
          /\ \E t \in ThreadIds :
                /\ Unreferenced(t)
                /\ \A u \in ThreadIds : Unreferenced(u) => t <= u
                /\ thread' = t
                /\ tstate' = [tstate EXCEPT ![t] = "new"]
          /\ pc' = [pc EXCEPT ![c] = "start_run"]
          /\ UNCHANGED <<stop_event, since_stop>>
       \/ /\ pc[c] = "start_run"
          /\ IF tstate[thread] = "new"
                THEN /\ tstate' = [tstate EXCEPT ![thread] = "loop"]
                     /\ pc' = Return(c)
                ELSE /\ pc' = [pc EXCEPT ![c] = "raised"]
                     /\ UNCHANGED tstate
          /\ UNCHANGED <<stop_event, thread, since_stop>>
    /\ UNCHANGED <<button, ret, jt, last_call>>
    /\ UNCHANGED <<cfgvars, combovars, localvars, listenervars, chordvars>>

\* stop_clicker, one step of caller c.
\*   stop_test:  if not self._stop_event.is_set():
\*   stop_set:       self._stop_event.set()
\*   stop_alive:     if self._thread.is_alive():
\*   stop_join:          self._thread.join()     (binds the Thread, then blocks)
\*   stop_wait:          ... until that Thread has ended
\* Thread.join() on a Thread that was never started raises RuntimeError.
stop_clicker(c) ==
    /\ \/ /\ pc[c] = "stop_test"
          /\ pc' = IF stop_guard THEN [pc EXCEPT ![c] = "stop_set"] ELSE Return(c)
          /\ UNCHANGED <<stop_event, since_stop, jt>>
       \/ /\ pc[c] = "stop_set"
          /\ stop_event' = TRUE
          /\ since_stop' = NoEvents
          /\ pc' = [pc EXCEPT ![c] = "stop_alive"]
          /\ UNCHANGED jt
       \/ /\ pc[c] = "stop_alive"
          /\ pc' = IF is_alive(thread) THEN [pc EXCEPT ![c] = "stop_join"] ELSE Return(c)
          /\ UNCHANGED <<stop_event, since_stop, jt>>
       \/ /\ pc[c] = "stop_join"
          /\ IF tstate[thread] = "new"
                THEN /\ pc' = [pc EXCEPT ![c] = "raised"]
                     /\ UNCHANGED jt
                ELSE /\ pc' = [pc EXCEPT ![c] = "stop_wait"]
                     /\ jt' = [jt EXCEPT ![c] = thread]
          /\ UNCHANGED <<stop_event, since_stop>>
       \/ /\ pc[c] = "stop_wait"
          /\ join_returns(jt[c])
          /\ pc' = Return(c)
          /\ jt' = [jt EXCEPT ![c] = -1]
          /\ UNCHANGED <<stop_event, since_stop>>
    /\ UNCHANGED <<thread, tstate, button, ret, last_call>>
    /\ UNCHANGED <<cfgvars, combovars, localvars, listenervars, chordvars>>

\* The module-level start_clicker(): AutoClicker().start_clicker(), called by c
\* with continuation k.
CallStart(c, k) ==
    /\ pc' = [pc EXCEPT ![c] = "start_test"]
    /\ ret' = [ret EXCEPT ![c] = k]
    /\ last_call' = [last_call EXCEPT ![c] = "start"]

\* The module-level stop_clicker(): AutoClicker().stop_clicker().
CallStop(c, k) ==
    /\ pc' = [pc EXCEPT ![c] = "stop_test"]
    /\ ret' = [ret EXCEPT ![c] = k]
    /\ last_call' = [last_call EXCEPT ![c] = "stop"]

\* A caller of the AutoClicker other than the listener calls start or stop.
ApiStart(c) ==
    /\ pc[c] = "idle"
    /\ CallStart(c, "idle")
    /\ UNCHANGED <<jt, clickervars, cfgvars, combovars, localvars, listenervars,
                   chordvars>>

ApiStop(c) ==
    /\ pc[c] = "idle"
    /\ CallStop(c, "idle")
    /\ UNCHANGED <<jt, clickervars, cfgvars, combovars, localvars, listenervars,
                   chordvars>>

\* The module-level is_clicker_alive() (lines 164-173) and the method (lines
\* 134-144): the first statement raises NotImplementedError, which ends the
\* call with the exception in the caller.
is_clicker_alive(c) ==
    /\ pc[c] = "idle"
    /\ pc' = [pc EXCEPT ![c] = "NotImplementedError"]
    /\ last_call' = [last_call EXCEPT ![c] = "is_alive"]
    /\ UNCHANGED <<ret, jt, clickervars, cfgvars, combovars, localvars, listenervars,
                   chordvars>>

(***************************************************************************)
(* Configuration                                                           *)
(***************************************************************************)

\* The combos a config.json can hold (tuples; the defaults are config_loader.py
\* lines 74-76), among them an empty one and one that validation refuses.
ComboChoices == {<<>>, <<"shift", "s">>, <<"shift", "e">>, <<"s">>, <<"S">>}

\* str.islower() for the one-character strings of the model.
islower(k) == k \in {"s", "e"}

\* hasattr(keyboard.Key, k.lower()) for the longer strings of the model.
is_special_key(k) == k \in {"shift"}

\* __validate_keys: TRUE when no key of the tuple raises.
keys_valid(key_tuple) ==
    \A i \in 1..Len(key_tuple) :
        LET k == key_tuple[i] IN
        /\ ~(Len(k) = 1 /\ ~islower(k))
        /\ ~(Len(k) # 1 /\ ~is_special_key(k))

\* __validate_keys: the returned set(key_tuple).
validate_keys(key_tuple) == {key_tuple[i] : i \in 1..Len(key_tuple)}

(***************************************************************************)
(* HotkeyListener                                                          *)
(***************************************************************************)

\* The key objects the input source delivers: None, a keyboard.Key (named key)
\* or a KeyCode whose char is a character, the empty string or None.
RawKeys ==
    {[kind |-> "None", val |-> NoneValue],
     [kind |-> "Key", val |-> "shift"],
     [kind |-> "KeyCode", val |-> "s"],
     [kind |-> "KeyCode", val |-> "S"],
     [kind |-> "KeyCode", val |-> "e"],
     [kind |-> "KeyCode", val |-> "E"],
     [kind |-> "KeyCode", val |-> ""],
     [kind |-> "KeyCode", val |-> NoneValue]}

\* The value of key while the event thread is not testing a delivered key.
NoKey == [kind |-> "NoKey", val |-> NoneValue]

\* str.lower() for the strings of the model.
lower(str) ==
    CASE str = "S" -> "s"
      [] str = "E" -> "e"
      [] OTHER -> str

\* _get_key_value
get_key_value(k) ==
    IF k.kind = "None" THEN NoneValue
    ELSE IF k.kind = "Key" THEN lower(k.val)
    ELSE IF k.val = NoneValue THEN NoneValue
    ELSE lower(k.val)

\* set.add and set.discard
add(S, k) == S \cup {k}

\* Mutant of discard: the release handler removes nothing.
discard_nothing(S, k) == S

discard(S, k) == S \ {k}

\* Mutant of matches: a combo matches only when exactly its keys are held.
matches_exact(held, combo) == held = combo

\* Mutant of matches: a combo matches as soon as one of its keys is held.
matches_any(held, combo) == \E k \in combo : k \in held

\* all([k in self._current_pressed_keys for k in combo])
matches(held, combo) == \A k \in combo : k \in held

\* Mutant of with_exit: the lock is still held after the with block.
with_exit_held == "ev"

\* The lock when the event thread leaves a with self._lock block: released.
with_exit == "free"

\* Mutant of Acquire: the block is entered without taking the lock.
acquire_unlocked(p, q) ==
    /\ pc["ev"] = p
    /\ UNCHANGED lock
    /\ pc' = [pc EXCEPT !["ev"] = q]

\* The event thread takes self._lock at position p and goes on to q.
Acquire(p, q) ==
    /\ pc["ev"] = p
    /\ lock = "free"
    /\ lock' = "ev"
    /\ pc' = [pc EXCEPT !["ev"] = q]

\* The event thread goes from p to q.
Goto(q) == pc' = [pc EXCEPT !["ev"] = q]

\* The input source delivers events while the listener runs and the event
\* thread is not inside a callback.
Delivering == pc["ev"] = "idle" /\ lpc \in {"poll", "stop"}

\* History: the most recent event of the key's symbol.
Record(k, event) ==
    most_recent' = IF get_key_value(k) \in Symbols
                      THEN [most_recent EXCEPT ![get_key_value(k)] = event]
                      ELSE most_recent

\* History: a press of symbol k is delivered.  A chord begins when no key is
\* held and the clicker is stopped; it goes on while the keys pressed are keys
\* of the start combo that are not held yet.
ChordPress(k) ==
    LET fresh == current_pressed_keys = {} /\ ~clicker_alive
        going == (fresh \/ chord) /\ k \in start_key_combo
                                  /\ k \notin current_pressed_keys
    IN  /\ chord' = going
        /\ n_start' = IF going /\ ~fresh THEN n_start ELSE 0

\* History: a release is delivered, which ends the chord.
ChordBroken == chord' = FALSE /\ n_start' = 0

\* History: the event thread requests a start.
ChordStart == UNCHANGED chord /\ n_start' = IF ~chord THEN 0 ELSE IF n_start = 0 THEN 1 ELSE 2

\* HotkeyListener.__init__ with __set_settings: validates the three combos in
\* the order exit, start, stop; an invalid key raises and nothing is started.
Construct ==
    /\ lpc = "init"
    /\ IF keys_valid(cfg_exit) /\ keys_valid(cfg_start) /\ keys_valid(cfg_stop)
          THEN /\ exit_key_combo' = validate_keys(cfg_exit)
               /\ start_key_combo' = validate_keys(cfg_start)
               /\ stop_key_combo' = validate_keys(cfg_stop)
               /\ lpc' = "poll"
          ELSE /\ lpc' = "error"
               /\ UNCHANGED combovars
    /\ UNCHANGED <<listener_stop_event, clicker_alive, current_pressed_keys, lock,
                   most_recent>>
    /\ UNCHANGED <<cfgvars, localvars, clickervars, callvars, chordvars>>

\* Mutant of push_dropped: only a None key is dropped, not a key without symbol.
push_dropped_none_only(k) == k.kind = "None"

\* _key_push's tests (lines 190-194): the event is dropped.
push_dropped(k) == k.kind = "None" \/ get_key_value(k) \in {"", NoneValue}

\* _key_release's test (lines 208-209): the event is dropped.
release_dropped(k) == k.kind = "None"

\* Mutant of after_discard: the release handler goes on to __check_hotkeys.
after_discard_check == "chk_acq"

\* Where _key_release goes after the discard (line 212): it returns.
after_discard == "idle"

\* _key_push: the input source calls it with a key (push_test), then
\*   push_test:            the tests of lines 190-194
\*   push_acq / push_add:  with self._lock: self._current_pressed_keys.add(key_value)
\* and the call of __check_hotkeys.
key_push ==
    /\ \/ /\ Delivering
          /\ \E k \in RawKeys :
                /\ key' = k
                /\ Record(k, "press")
                /\ IF get_key_value(k) \in Symbols
                      THEN ChordPress(get_key_value(k))
                      ELSE UNCHANGED chordvars
          /\ Goto("push_test")
          /\ UNCHANGED <<key_value, lock, current_pressed_keys>>
       \/ /\ pc["ev"] = "push_test"
          /\ IF push_dropped(key)
                THEN Goto("idle") /\ UNCHANGED key_value
                ELSE Goto("push_acq") /\ key_value' = get_key_value(key)
          /\ key' = NoKey
          /\ UNCHANGED <<lock, current_pressed_keys, most_recent, chordvars>>
       \/ /\ Acquire("push_acq", "push_add")
          /\ UNCHANGED <<key, key_value, current_pressed_keys, most_recent, chordvars>>
       \/ /\ pc["ev"] = "push_add"
          /\ current_pressed_keys' = add(current_pressed_keys, key_value)
          /\ key_value' = NoneValue
          /\ lock' = with_exit
          /\ Goto("chk_acq")
          /\ UNCHANGED <<key, most_recent, chordvars>>
    /\ UNCHANGED <<lpc, listener_stop_event, clicker_alive>>
    /\ UNCHANGED <<do_exit, do_stop, do_start, ret, jt, last_call>>
    /\ UNCHANGED <<cfgvars, combovars, clickervars>>

\* _key_release: the input source calls it with a key (rel_test), then
\*   rel_test:               the test of lines 208-209
\*   rel_acq / rel_discard:  with self._lock: ...discard(key_value)
key_release ==
    /\ \/ /\ Delivering
          /\ \E k \in RawKeys :
                /\ key' = k
                /\ Record(k, "release")
                /\ IF k.kind # "None" THEN ChordBroken ELSE UNCHANGED chordvars
          /\ Goto("rel_test")
          /\ UNCHANGED <<key_value, lock, current_pressed_keys>>
       \/ /\ pc["ev"] = "rel_test"
          /\ IF release_dropped(key)
                THEN Goto("idle") /\ UNCHANGED key_value
                ELSE Goto("rel_acq") /\ key_value' = get_key_value(key)
          /\ key' = NoKey
          /\ UNCHANGED <<lock, current_pressed_keys, most_recent, chordvars>>
       \/ /\ Acquire("rel_acq", "rel_discard")
          /\ UNCHANGED <<key, key_value, current_pressed_keys, most_recent, chordvars>>
       \/ /\ pc["ev"] = "rel_discard"
          /\ current_pressed_keys' = discard(current_pressed_keys, key_value)
          /\ key_value' = NoneValue
          /\ lock' = with_exit
          /\ Goto(after_discard)
          /\ UNCHANGED <<key, most_recent, chordvars>>
    /\ UNCHANGED <<lpc, listener_stop_event, clicker_alive>>
    /\ UNCHANGED <<do_exit, do_stop, do_start, ret, jt, last_call>>
    /\ UNCHANGED <<cfgvars, combovars, clickervars>>

\* Mutant of after_eval: the exit match is not tested first.
after_eval_noexit(de) == "br_get_acq"

\* Line 148: where __check_hotkeys goes once the three matches are computed.
after_eval(de) == IF de THEN "exit_get_acq" ELSE "br_get_acq"

\* Mutant of exit_action: the exit branch does not stop the clicker.
exit_nostop(alive) == "exit"

\* Lines 149-152: what the exit branch does first, given clicker_alive.
exit_action(alive) == IF alive THEN "stop" ELSE "exit"

\* Mutant of branch_action: the branch does not look at clicker_alive.
branch_noflag(alive, ds, dst) ==
    IF dst THEN "start" ELSE IF ds THEN "stop" ELSE "none"

\* Lines 156-163: the request the stop/start branch makes, given clicker_alive
\* and the stop and start matches.
branch_action(alive, ds, dst) ==
    IF alive THEN (IF ds THEN "stop" ELSE "none")
             ELSE (IF dst THEN "start" ELSE "none")

\* __check_hotkeys returns: its locals are gone.
Finish ==
    /\ Goto("idle")
    /\ do_exit' = FALSE
    /\ do_stop' = FALSE
    /\ do_start' = FALSE

\* __check_hotkeys, one step of the event thread.
\*   chk_acq / chk_eval:        with self._lock: do_exit, do_stop, do_start = ...
\*   exit_get_acq / exit_get:   if self.clicker_alive:   (property, under the lock)
\*                                  stop_clicker()
\*   exit_set_acq / exit_set:       self.clicker_alive = False
\*   exit_prog_acq / exit_prog: self.__exit_program(); print; return
\*   br_get_acq / br_get:       if self.clicker_alive: ... stop_clicker()
\*                              else: ... start_clicker()
\*   br_clr_acq / br_clr:       self.clicker_alive = False
\*   br_set_acq / br_set:       self.clicker_alive = True
check_hotkeys ==
    /\ \/ /\ Acquire("chk_acq", "chk_eval")
          /\ UNCHANGED <<do_exit, do_stop, do_start, ret, last_call, chordvars>>
          /\ UNCHANGED <<clicker_alive, listener_stop_event>>
       \/ /\ pc["ev"] = "chk_eval"
          /\ do_exit' = matches(current_pressed_keys, exit_key_combo)
          /\ do_stop' = matches(current_pressed_keys, stop_key_combo)
          /\ do_start' = matches(current_pressed_keys, start_key_combo)
          /\ lock' = with_exit
          /\ Goto(after_eval(do_exit'))
          /\ UNCHANGED <<ret, last_call, clicker_alive, listener_stop_event, chordvars>>
       \/ /\ Acquire("exit_get_acq", "exit_get")
          /\ UNCHANGED <<do_exit, do_stop, do_start, ret, last_call, chordvars>>
          /\ UNCHANGED <<clicker_alive, listener_stop_event>>
       \/ /\ pc["ev"] = "exit_get"
          /\ lock' = with_exit
          /\ IF exit_action(clicker_alive) = "stop"
                THEN CallStop("ev", "exit_set_acq")
                ELSE Goto("exit_prog_acq") /\ UNCHANGED <<ret, last_call>>
          /\ UNCHANGED <<do_exit, do_stop, do_start, chordvars>>
          /\ UNCHANGED <<clicker_alive, listener_stop_event>>
       \/ /\ Acquire("exit_set_acq", "exit_set")
          /\ UNCHANGED <<do_exit, do_stop, do_start, ret, last_call, chordvars>>
          /\ UNCHANGED <<clicker_alive, listener_stop_event>>
       \/ /\ pc["ev"] = "exit_set"
          /\ clicker_alive' = FALSE
          /\ lock' = with_exit
          /\ Goto("exit_prog_acq")
          /\ UNCHANGED <<do_exit, do_stop, do_start, ret, last_call, chordvars>>
          /\ UNCHANGED listener_stop_event
       \/ /\ Acquire("exit_prog_acq", "exit_prog")
          /\ UNCHANGED <<do_exit, do_stop, do_start, ret, last_call, chordvars>>
          /\ UNCHANGED <<clicker_alive, listener_stop_event>>
       \/ /\ pc["ev"] = "exit_prog"
          /\ listener_stop_event' = TRUE
          /\ lock' = with_exit
          /\ Finish
          /\ UNCHANGED <<ret, last_call, clicker_alive, chordvars>>
       \/ /\ Acquire("br_get_acq", "br_get")
          /\ UNCHANGED <<do_exit, do_stop, do_start, ret, last_call, chordvars>>
          /\ UNCHANGED <<clicker_alive, listener_stop_event>>
       \/ /\ pc["ev"] = "br_get"
          /\ lock' = with_exit
          /\ LET a == branch_action(clicker_alive, do_stop, do_start) IN
             CASE a = "stop" ->
                    /\ CallStop("ev", "br_clr_acq")
                    /\ UNCHANGED <<do_exit, do_stop, do_start, chordvars>>
               [] a = "start" ->
                    /\ CallStart("ev", "br_set_acq")
                    /\ ChordStart
                    /\ UNCHANGED <<do_exit, do_stop, do_start>>
               [] OTHER ->
                    Finish /\ UNCHANGED <<ret, last_call, chordvars>>
          /\ UNCHANGED <<clicker_alive, listener_stop_event>>
       \/ /\ Acquire("br_clr_acq", "br_clr")
          /\ UNCHANGED <<do_exit, do_stop, do_start, ret, last_call, chordvars>>
          /\ UNCHANGED <<clicker_alive, listener_stop_event>>
       \/ /\ pc["ev"] = "br_clr"
          /\ clicker_alive' = FALSE
          /\ lock' = with_exit
          /\ Finish
          /\ UNCHANGED <<ret, last_call, listener_stop_event, chordvars>>
       \/ /\ Acquire("br_set_acq", "br_set")
          /\ UNCHANGED <<do_exit, do_stop, do_start, ret, last_call, chordvars>>
          /\ UNCHANGED <<clicker_alive, listener_stop_event>>
       \/ /\ pc["ev"] = "br_set"
          /\ clicker_alive' = TRUE
          /\ lock' = with_exit
          /\ Finish
          /\ UNCHANGED <<ret, last_call, listener_stop_event, chordvars>>
    /\ UNCHANGED <<lpc, current_pressed_keys, most_recent, key_value, key, jt>>
    /\ UNCHANGED <<cfgvars, combovars, clickervars>>

\* Mutant of shutdown_observed: the polling loop never sees the shutdown flag.
never_observed == FALSE

\* The polling loop's test (line 222): the shutdown flag is set.
shutdown_observed == listener_stop_event

\* __key_listener: the polling loop.
\*   poll:  while not self._stop_event.is_set(): sleep(0.1)
\*   stop:  listener.stop()
\*   join:  leaving the with block joins the event thread
key_listener ==
    /\ \/ /\ lpc = "poll"
          /\ shutdown_observed
          /\ lpc' = "stop"
       \/ /\ lpc = "stop"
          /\ lpc' = "join"
       \/ /\ lpc = "join"
          /\ pc["ev"] = "idle"
          /\ lpc' = "done"
    /\ UNCHANGED <<listener_stop_event, clicker_alive, current_pressed_keys, lock,
                   most_recent>>
    /\ UNCHANGED <<cfgvars, combovars, localvars, clickervars, callvars, chordvars>>

Init ==
    /\ cfg_start \in ComboChoices
    /\ cfg_stop \in ComboChoices
    /\ cfg_exit \in ComboChoices
    /\ start_key_combo = {}
    /\ stop_key_combo = {}
    /\ exit_key_combo = {}
    /\ lpc = "init"
    /\ listener_stop_event = FALSE
    /\ clicker_alive = FALSE
    /\ current_pressed_keys = {}
    /\ lock = "free"
    /\ pc = [c \in Callers |-> "idle"]
    /\ ret = [c \in Callers |-> "idle"]
    /\ jt = [c \in Callers |-> -1]
    /\ do_exit = FALSE
    /\ do_stop = FALSE
    /\ do_start = FALSE
    /\ key_value = NoneValue
    /\ key = NoKey
    /\ stop_event = TRUE
    /\ thread = 0
    /\ tstate = [t \in ThreadIds |-> "new"]
    /\ button = FALSE
    /\ since_stop = NoEvents
    /\ last_call = [c \in Callers |-> "none"]
    /\ most_recent = [k \in Symbols |-> "none"]
    /\ chord = FALSE
    /\ n_start = 0

\* The AutoClicker driven by one caller.
NextAPI ==
    \/ ApiStart("c1")
    \/ ApiStop("c1")
    \/ start_clicker("c1")
    \/ stop_clicker("c1")
    \/ is_clicker_alive("c1")
    \/ \E t \in ThreadIds : click_worker(t)

SpecAPI == Init /\ [][NextAPI]_vars

\* The AutoClicker driven by two threads at the same time.
NextAPI2 ==
    \/ \E c \in {"c1", "c2"} :
          \/ ApiStart(c)
          \/ ApiStop(c)
          \/ start_clicker(c)
          \/ stop_clicker(c)
    \/ \E t \in ThreadIds : click_worker(t)

\* The state after construction with the default key bindings
\* (config_loader.py lines 74-76).
InitDefault ==
    /\ Init
    /\ cfg_start = <<"shift", "s">>
    /\ cfg_stop = <<"shift", "s">>
    /\ cfg_exit = <<"shift", "e">>

SpecAPI2 == InitDefault /\ [][NextAPI2]_vars

\* The program: the listener, the event thread and the click workers.
Next ==
    \/ Construct
    \/ key_push
    \/ key_release
    \/ check_hotkeys
    \/ start_clicker("ev")
    \/ stop_clicker("ev")
    \/ \E t \in ThreadIds : click_worker(t)
    \/ key_listener

Spec == Init /\ [][Next]_vars

\* SpecAPI with the scheduling the threads have: a thread that can take a step
\* eventually takes it (the caller inside stop_clicker, every click worker).
SpecAPIFair ==
    /\ SpecAPI
    /\ WF_vars(stop_clicker("c1"))
    /\ \A t \in ThreadIds : WF_vars(click_worker(t))

\* A step of the event thread inside a callback (not the delivery of an event).
EvStep ==
    /\ pc["ev"] # "idle"
    /\ \/ key_push
       \/ key_release
       \/ check_hotkeys
       \/ start_clicker("ev")
       \/ stop_clicker("ev")

\* Spec with the scheduling the threads have: the event thread inside a
\* callback, the polling loop and every click worker eventually take the step
\* they can take.  The delivery of key events is not forced.
SpecFair ==
    /\ Spec
    /\ WF_vars(EvStep)
    /\ WF_vars(key_listener)
    /\ \A t \in ThreadIds : WF_vars(click_worker(t))

(***************************************************************************)
(* Properties                                                              *)
(***************************************************************************)

\* A click side effect: some worker performs button-down or button-up.
ClickEffect ==
    \E t \in ThreadIds :
        \/ tstate[t] = "press" /\ tstate'[t] = "pause"
        \/ tstate[t] = "release" /\ tstate'[t] = "loop"

\* The caller's last call was stop() and it has returned.
StopReturned(c) == pc[c] = "idle" /\ last_call[c] = "stop"

\* C1 (bounded stop): with a single caller, once a stop() call has returned no
\* step performs button-down or button-up until the caller calls start() again.
C1_BoundedStop == [][StopReturned("c1") => ~ClickEffect]_vars

\* C1 witness: stop() has returned after stopping a worker that was running.
C1_Witness == StopReturned("c1") /\ tstate[thread] = "dead"

\* At most one live click loop; exactly one once start() has returned, none
\* once stop() has returned.
C2_OneLoop ==
    /\ Cardinality(AliveThreads) <= 1
    /\ (pc["c1"] = "idle" /\ last_call["c1"] = "start") => Cardinality(AliveThreads) = 1
    /\ StopReturned("c1") => AliveThreads = {}

\* A start() made while a click loop is alive returns at its first step and
\* leaves the worker as it is.
C2_StartNoOp ==
    (pc["c1"] = "start_test" /\ AliveThreads # {} /\ pc'["c1"] # pc["c1"])
        => (pc'["c1"] = "idle" /\ UNCHANGED clickervars)

\* C2 (start idempotence): with a single caller there is never more than one
\* live click loop; when the last call was start() and it has returned there is
\* exactly one, when it was stop() there is none; and a start() made while the
\* worker is running returns without changing the worker.
C2_StartIdempotent == []C2_OneLoop /\ [][C2_StartNoOp]_vars

\* C2 witness: start() is called while the worker is running.
C2_Witness == pc["c1"] = "start_test" /\ is_alive(thread) /\ ~stop_event

\* The worker is Stopped: the stop event is set and no click loop is alive.
Stopped == stop_event /\ AliveThreads = {}

InStop(c) == pc[c] \in {"stop_test", "stop_set", "stop_alive", "stop_join", "stop_wait"}

\* A stop() made while the worker is Stopped returns at its first step and
\* leaves the worker as it is.
C3_StopNoOp ==
    (pc["c1"] = "stop_test" /\ Stopped /\ pc'["c1"] # pc["c1"])
        => (pc'["c1"] = "idle" /\ UNCHANGED clickervars)

\* C3 (stop never hangs, never errors): a stop() made while the worker is
\* Stopped returns at its first step and changes nothing; no call raises; and,
\* the threads being scheduled fairly, every stop() returns with the worker
\* Stopped.
C3_StopReturns ==
    /\ [][C3_StopNoOp]_vars
    /\ [](pc["c1"] # "raised")
    /\ (InStop("c1") ~> (pc["c1"] = "idle" /\ Stopped))

\* C3 witness: stop() is waiting in join() for a worker that is in mid-cycle.
C3_Witness == pc["c1"] = "stop_wait" /\ tstate[jt["c1"]] = "pause"

\* The held keys satisfy the combo.
Holds(combo) == combo \subseteq current_pressed_keys

\* The event thread is handling a press event and has recorded the key.
InPress == pc["ev"] \notin {"idle", "push_test", "push_acq", "push_add",
                           "rel_test", "rel_acq", "rel_discard", "raised"}

\* The event thread has computed the three matches of the press it handles.
AfterEval == InPress /\ pc["ev"] \notin {"chk_acq", "chk_eval"}

\* The event thread requests a start / a stop of the Click Worker.
StartRequest == pc["ev"] # "start_test" /\ pc'["ev"] = "start_test"

StopRequest == pc["ev"] # "stop_test" /\ pc'["ev"] = "stop_test"

\* The three combos of the listener are non-empty, as the data model requires.
NonEmptyCombos == start_key_combo # {} /\ stop_key_combo # {} /\ exit_key_combo # {}

\* The press being handled satisfies the exit combo and the start or stop combo.
ExitAndOther ==
    InPress /\ Holds(exit_key_combo) /\ (Holds(start_key_combo) \/ Holds(stop_key_combo))

\* C4 as stated: for a press after which the held keys satisfy the exit combo
\* and the start or stop combo, no start and no stop request is made, whether
\* the clicker is running or not (here for non-empty combos).
C4_NoStartNoStop ==
    [][(ExitAndOther /\ NonEmptyCombos) => (~StartRequest /\ ~StopRequest)]_vars

\* C4 (priority), amended: for such a press the handler ends with the shutdown
\* flag set, no start request is made, and the only stop request is the one the
\* exit branch makes when the clicker is running.
C4_ExitPriority ==
    [][ExitAndOther =>
        /\ ~StartRequest
        /\ StopRequest => (pc["ev"] = "exit_get" /\ clicker_alive
                           /\ ret'["ev"] = "exit_set_acq")
        /\ pc'["ev"] = "idle" => listener_stop_event']_vars

\* C4 witness: exit and stop both match while the clicker is running, and the
\* exit branch has stopped the worker.
C4_Witness == ExitAndOther /\ NonEmptyCombos /\ pc["ev"] = "exit_set"

\* C5 (exit ordering): in the state in which the shutdown flag has just been
\* set, the worker is Stopped and ClickerAliveFlag is false.
C5_ExitOrdering ==
    [][(~listener_stop_event /\ listener_stop_event') => (Stopped /\ ~clicker_alive)']_vars

\* C5 witness: the shutdown flag is set by an exit press that found the clicker
\* running and stopped it.
C5_Witness ==
    /\ listener_stop_event
    /\ ret["ev"] = "exit_set_acq"
    /\ tstate[thread] = "dead"

\* C6 (held keys): whenever no event is being handled, HeldKeys is the set of
\* symbols whose most recent event is a press.
C6_HeldKeys ==
    pc["ev"] = "idle" =>
        current_pressed_keys = {k \in Symbols : most_recent[k] = "press"}

\* C6 witness: after presses and releases, one symbol is held and another one
\* was last released.
C6_Witness ==
    /\ pc["ev"] = "idle"
    /\ \E k \in Symbols : most_recent[k] = "release"
    /\ \E k \in Symbols : most_recent[k] = "press"

\* The three match results of a press are the subset tests of the combos
\* against HeldKeys.
C7_Results ==
    AfterEval =>
        /\ do_exit = (exit_key_combo \subseteq current_pressed_keys)
        /\ do_stop = (stop_key_combo \subseteq current_pressed_keys)
        /\ do_start = (start_key_combo \subseteq current_pressed_keys)

\* C7 (subset test): the three match results of a press are the subset tests
\* of the combos against HeldKeys (extra held keys do not prevent a match), and
\* computing them leaves HeldKeys unchanged.
C7_SubsetTest ==
    /\ []C7_Results
    /\ [][pc["ev"] = "chk_eval" => UNCHANGED current_pressed_keys]_vars

\* C7 witness: the start combo matches while a key outside it is held too.
C7_Witness ==
    /\ pc["ev"] = "br_get_acq"
    /\ do_start
    /\ start_key_combo # {}
    /\ start_key_combo # current_pressed_keys

\* C8 as stated: an empty combo is rejected at construction, so a listener that
\* runs has three non-empty combos.
C8_EmptyRejected == lpc \notin {"init", "error"} => NonEmptyCombos

\* Start and stop combo are the same, it is held, and the exit combo is not.
Toggle ==
    /\ start_key_combo = stop_key_combo
    /\ Holds(start_key_combo)
    /\ ~Holds(exit_key_combo)

\* One step of the event thread while it handles a press under Toggle.
C9_Step ==
    (Toggle /\ pc'["ev"] # pc["ev"]) =>
        /\ pc["ev"] = "chk_eval" => pc'["ev"] = "br_get_acq"
        /\ pc["ev"] = "br_get" =>
              pc'["ev"] = IF AliveThreads # {} THEN "stop_test" ELSE "start_test"
        /\ pc["ev"] = "br_set" =>
              (clicker_alive /\ ~stop_event /\ Cardinality(AliveThreads) = 1)'
        /\ pc["ev"] = "br_clr" => (~clicker_alive /\ Stopped)'

\* C9 (toggle): with identical start and stop combos held and the exit combo
\* not held, every press reaches the start/stop branch, requests a start when
\* no click loop is alive and a stop when one is, and ends with the worker
\* running (after a start) or Stopped (after a stop): consecutive such presses
\* alternate start and stop.
C9_ToggleAlternates == [][C9_Step]_vars

\* C9 witness: a press with the shared combo held has stopped the running worker.
C9_Witness ==
    /\ pc["ev"] = "br_clr"
    /\ Toggle
    /\ start_key_combo # {}
    /\ tstate[thread] = "dead"

\* C10 as stated: after a chord of the start combo's keys, exactly one start
\* request was made, on the press that completed the combo (here for non-empty
\* combos and a start combo of two keys).
C10_ExactlyOneStart ==
    (NonEmptyCombos /\ Cardinality(start_key_combo) = 2 /\ pc["ev"] = "idle" /\ chord) =>
        n_start = IF current_pressed_keys = start_key_combo THEN 1 ELSE 0

\* C10 (single start per chord), amended: the same, provided the keys held do
\* not satisfy the exit combo.
C10_SingleStart ==
    (pc["ev"] = "idle" /\ chord /\ ~Holds(exit_key_combo)) =>
        n_start = IF current_pressed_keys = start_key_combo THEN 1 ELSE 0

\* C10 witness: the two keys of the start combo were pressed one after the
\* other and one start request was made.
C10_Witness ==
    /\ pc["ev"] = "idle"
    /\ chord
    /\ Cardinality(start_key_combo) = 2
    /\ current_pressed_keys = start_key_combo
    /\ n_start = 1

\* The worker is Running: the stop event is clear and one click loop is alive.
Running == ~stop_event /\ Cardinality(AliveThreads) = 1

\* The press being handled found the clicker running and satisfies the start
\* combo but not the exit combo.
StartWhileRunning ==
    InPress /\ clicker_alive /\ Holds(start_key_combo) /\ ~Holds(exit_key_combo)

\* The press being handled found the clicker stopped and satisfies the stop
\* combo only.
StopWhileStopped ==
    /\ InPress /\ ~clicker_alive
    /\ Holds(stop_key_combo) /\ ~Holds(start_key_combo) /\ ~Holds(exit_key_combo)

\* C11 as stated: while the clicker is running, a press after which the start
\* combo is satisfied and the exit combo is not makes no start or stop request
\* and leaves ClickerAliveFlag true (here for non-empty combos).
C11_StartIgnored ==
    [][(StartWhileRunning /\ NonEmptyCombos) =>
            (~StartRequest /\ ~StopRequest /\ clicker_alive')]_vars

\* C11 (matches outside the relevant branch are ignored), amended: while the
\* clicker is running, a press that satisfies the start combo but neither the
\* stop combo nor the exit combo makes no request and leaves the worker Running
\* and ClickerAliveFlag true; while it is stopped, a press that satisfies only
\* the stop combo makes no request and leaves the worker Stopped and the flag
\* false.
C11_OtherBranchIgnored ==
    [][/\ (StartWhileRunning /\ ~Holds(stop_key_combo)) =>
              (~StartRequest /\ ~StopRequest /\ clicker_alive' /\ Running')
       /\ StopWhileStopped =>
              (~StartRequest /\ ~StopRequest /\ ~clicker_alive' /\ Stopped')]_vars

\* C11 witness: the clicker is running and the press being handled satisfies
\* the start combo only.
C11_Witness ==
    /\ pc["ev"] = "br_get"
    /\ StartWhileRunning
    /\ ~Holds(stop_key_combo)
    /\ NonEmptyCombos

\* C12 (shutdown liveness): once a press matches the exit combo, the threads
\* being scheduled fairly, the polling loop ends; it ends only after the
\* shutdown flag was set, and once it has stopped the input source no event is
\* delivered.
C12_ShutdownLiveness ==
    /\ (AfterEval /\ Holds(exit_key_combo)) ~> (lpc = "done")
    /\ [](lpc \in {"stop", "join", "done"} => listener_stop_event)
    /\ [](lpc \in {"join", "done"} => ~Delivering)

\* C12 witness: the exit combo fired while the clicker was running, and the
\* polling loop has ended.
C12_Witness == lpc = "done" /\ ret["ev"] = "exit_set_acq" /\ NonEmptyCombos

\* The event thread is inside _key_release.
InRelease == pc["ev"] \in {"rel_test", "rel_acq", "rel_discard"}

\* A step of the event thread that belongs to the handling of a release event.
ReleaseStep == pc'["ev"] # pc["ev"] /\ (InRelease \/ pc'["ev"] = "rel_test")

\* C13 (no hotkey evaluation on release): every step of the handling of a
\* release event leaves the Click Worker, ClickerAliveFlag and the shutdown flag
\* unchanged, the only change of HeldKeys is the removal of the released key's
\* symbol, and the handler returns without evaluating the combos.
C13_ReleaseNoEvaluation ==
    [][ReleaseStep =>
          /\ UNCHANGED <<clicker_alive, listener_stop_event, clickervars>>
          /\ pc'["ev"] \in {"rel_test", "rel_acq", "rel_discard", "idle"}
          /\ (pc["ev"] = "rel_test" /\ pc'["ev"] = "rel_acq")
                => key_value' = get_key_value(key)
          /\ current_pressed_keys' =
                IF pc["ev"] = "rel_discard"
                   THEN current_pressed_keys \ {key_value}
                   ELSE current_pressed_keys]_vars

\* C13 witness: the clicker is stopped and a held key is being released whose
\* removal leaves a held set that satisfies the start combo and not the exit
\* combo.
C13_Witness ==
    /\ pc["ev"] = "rel_discard"
    /\ key_value \in current_pressed_keys
    /\ NonEmptyCombos
    /\ ~clicker_alive
    /\ start_key_combo \subseteq current_pressed_keys \ {key_value}
    /\ ~(exit_key_combo \subseteq current_pressed_keys \ {key_value})

\* C14 as stated (liveness introspection is not a failing stub): no call of
\* is_clicker_alive ends with an exception in its caller.
C14_IsAliveCompletes == \A c \in Callers : pc[c] # "NotImplementedError"

\* C15 as stated (ShuttingDown is terminal): in every state with the shutdown
\* flag set the worker is Stopped and the simulated button is up (here for
\* non-empty combos).
C15_ShutdownTerminal ==
    (listener_stop_event /\ NonEmptyCombos) => (Stopped /\ ~button)

\* No press event is in the middle of being handled by the event thread.
NoPress == pc["ev"] \in {"idle", "rel_test", "rel_acq", "rel_discard"}

\* The event thread is inside start_clicker / stop_clicker.
InStart(c) == pc[c] \in {"start_test", "start_clear", "start_new", "start_run"}

\* C16 (flag/worker consistency): whenever no press event is being handled,
\* ClickerAliveFlag is true iff the worker is Running and false iff it is
\* Stopped; and the worker becomes or ceases to be Running or Stopped only
\* while the event thread is inside a start or stop request, which never
\* raises.
C16_FlagConsistent ==
    /\ [](NoPress => /\ clicker_alive <=> Running
                     /\ ~clicker_alive <=> Stopped)
    /\ [][(Running' # Running \/ Stopped' # Stopped) => (InStart("ev") \/ InStop("ev"))]_vars
    /\ [](pc["ev"] # "raised")

\* C16 witness: no event is being handled, the flag is true and the running
\* worker holds the simulated button down.
C16_Witness ==
    /\ pc["ev"] = "idle"
    /\ clicker_alive
    /\ Running
    /\ button
    /\ NonEmptyCombos

\* C17 as stated (start/stop are internally synchronized): with start() and
\* stop() called by two threads at the same time there is never more than one
\* live click loop and no call raises.
C17_Synchronized ==
    /\ Cardinality(AliveThreads) <= 1
    /\ \A c \in {"c1", "c2"} : pc[c] # "raised"

\* The positions of one click cycle in order, and the ways a loop thread
\* begins and ends.
CycleOrder ==
    {<<"new", "loop">>, <<"loop", "wait">>, <<"wait", "press">>, <<"press", "pause">>,
     <<"pause", "release">>, <<"release", "loop">>, <<"loop", "dead">>,
     <<"dead", "new">>}

\* The simulated button goes down at the step that leaves "press" and up at
\* the step that leaves "release", and at no other step.
ButtonSteps ==
    /\ (~button /\ button') => \E t \in ThreadIds : tstate[t] = "press" /\ tstate'[t] = "pause"
    /\ (button /\ ~button') => \E t \in ThreadIds : tstate[t] = "release" /\ tstate'[t] = "loop"

\* C18 (click-cycle ordering): every loop thread goes through interval wait,
\* button-down, 5 ms wait, button-up, in this order and beginning with the
\* interval wait; it tests the stop event and ends only between cycles, so the
\* button is down exactly while a thread is between its button-down and its
\* button-up, and it is up whenever the worker is Stopped.
C18_CycleOrder ==
    /\ [][\A t \in ThreadIds :
             tstate'[t] # tstate[t] => <<tstate[t], tstate'[t]>> \in CycleOrder]_vars
    /\ [][ButtonSteps]_vars
    /\ [](button <=> \E t \in ThreadIds : tstate[t] \in {"pause", "release"})
    /\ [](Stopped => ~button)

\* C18 witness: the stop signal came while the button was down, the cycle was
\* completed, and the worker is Stopped after the stop() call returned.
C18_Witness ==
    /\ StopReturned("c1")
    /\ Stopped
    /\ since_stop["down"] = 0
    /\ since_stop["up"] = 1
    /\ ~button

\* A loop thread ends at this step.
Ends(t) == is_alive(t) /\ ~is_alive(t)'

\* C19 (cooperative cancellation bounded by one cycle): after stop() has set
\* the stop event the worker performs at most one button-down and one
\* button-up; a loop thread ends only by its own step at the top of the loop,
\* having read the stop event as set.
C19_BoundedCancellation ==
    /\ [](since_stop["down"] <= 1 /\ since_stop["up"] <= 1)
    /\ [][\A t \in ThreadIds :
             Ends(t) => (tstate[t] = "loop" /\ stop_event /\ tstate'[t] = "dead")]_vars

\* C19 witness: the stop signal came during the interval wait; the worker
\* performed one full click cycle after it and then ended.
C19_Witness ==
    /\ Stopped
    /\ tstate[thread] = "dead"
    /\ since_stop["down"] = 1
    /\ since_stop["up"] = 1

\* The key event is null or yields no symbol: None, or a KeyCode whose char is
\* None or the empty string.
Unresolvable(k) == k.kind = "None" \/ k.val \in {NoneValue, ""}

\* Nothing of HeldKeys, ClickerAliveFlag, the worker and the shutdown flag
\* changes at this step.
NoStateChange ==
    UNCHANGED <<current_pressed_keys, clicker_alive, listener_stop_event, clickervars>>

\* The steps of the event thread that handle an unresolvable key event: its
\* delivery, the dropped press, and the release, which goes on to discard a
\* value that is not a symbol.
C20_Step ==
    /\ (pc["ev"] = "idle" /\ pc'["ev"] \in {"push_test", "rel_test"} /\ Unresolvable(key'))
          => NoStateChange
    /\ (pc["ev"] = "push_test" /\ Unresolvable(key))
          => (pc'["ev"] = "idle" /\ NoStateChange)
    /\ (pc["ev"] = "rel_test" /\ Unresolvable(key))
          => (pc'["ev"] \in {"idle", "rel_acq"} /\ key_value' \notin Symbols /\ NoStateChange)
    /\ (pc["ev"] \in {"rel_acq", "rel_discard"} /\ key_value \notin Symbols)
          => (pc'["ev"] \in {"rel_discard", "idle"} /\ NoStateChange)

\* C20 (an unresolvable key event is dropped): handling a press or release
\* event that is null or yields no symbol changes nothing of HeldKeys,
\* ClickerAliveFlag, the worker and the shutdown flag, raises nothing, and on
\* press returns without evaluating the combos.
C20_UnresolvableDropped == [][pc'["ev"] # pc["ev"] => C20_Step]_vars

\* C20 witness: a press without symbol is being handled while the clicker is
\* stopped and the held keys satisfy the start combo and not the exit combo.
C20_Witness ==
    /\ pc["ev"] = "push_test"
    /\ Unresolvable(key)
    /\ key.kind = "KeyCode"
    /\ NonEmptyCombos
    /\ ~clicker_alive
    /\ Holds(start_key_combo)
    /\ ~Holds(exit_key_combo)

\* The positions at which the event thread reads or writes HeldKeys
\* (push_add, rel_discard, chk_eval) or ClickerAliveFlag (exit_get, exit_set,
\* br_get, br_clr, br_set).
AccessPcs ==
    {"push_add", "rel_discard", "chk_eval", "exit_get", "exit_set", "br_get",
     "br_clr", "br_set"}

\* C21 (locking discipline): after construction, the event thread holds the
\* controller's mutex at every position where it reads or writes HeldKeys or
\* ClickerAliveFlag; every step that changes one of them is a step of the
\* event thread taken while it holds the mutex; no other thread touches them;
\* and the mutex is free or held by that one thread, which holds it only
\* inside such a block or the one that sets the shutdown flag.
C21_LockDiscipline ==
    /\ [](pc["ev"] \in AccessPcs => lock = "ev")
    /\ [][(current_pressed_keys' # current_pressed_keys \/ clicker_alive' # clicker_alive)
             => (lock = "ev" /\ pc["ev"] \in AccessPcs /\ pc'["ev"] # pc["ev"])]_vars
    /\ [](lock \in {"free", "ev"})
    /\ [](lock = "ev" => pc["ev"] \in AccessPcs \cup {"exit_prog"})

\* C21 witness: the event thread evaluates the combos under the mutex while a
\* click worker and the polling loop run beside it.
C21_Witness ==
    /\ pc["ev"] = "chk_eval"
    /\ lock = "ev"
    /\ Running
    /\ lpc = "poll"
    /\ NonEmptyCombos

\* The positions at which the event thread requests the controller's mutex.
AcquirePcs ==
    {"push_acq", "rel_acq", "chk_acq", "exit_get_acq", "exit_set_acq",
     "exit_prog_acq", "br_get_acq", "br_clr_acq", "br_set_acq"}

\* The program has finished: the polling loop has ended, or construction
\* raised.
Finished == lpc \in {"done", "error"}

\* C22 (deadlock freedom of the controller): the event thread never requests
\* the mutex while it holds it; the mutex is free all the time the event
\* thread is inside start_clicker or stop_clicker; whenever the event thread
\* is inside a callback it can take a step, or it waits in join() for a click
\* worker that can take a step; and as long as the program has not finished
\* some thread can take a step.
C22_DeadlockFree ==
    /\ pc["ev"] \in AcquirePcs => lock = "free"
    /\ (InStart("ev") \/ InStop("ev")) => lock = "free"
    /\ pc["ev"] # "idle" =>
          \/ ENABLED EvStep
          \/ pc["ev"] = "stop_wait" /\ ENABLED click_worker(jt["ev"])
    /\ ~Finished => ENABLED Next

\* C22 witness: the event thread waits in join() for the click worker, the
\* mutex is free and the worker is still in its cycle.
C22_Witness ==
    /\ pc["ev"] = "stop_wait"
    /\ lock = "free"
    /\ tstate[jt["ev"]] = "release"
    /\ lpc = "poll"
    /\ NonEmptyCombos

====
